---- MODULE Spec2Model ----
(***************************************************************************)
(* The Genesis agent simulation: the zustand store useSimulation, the      *)
(* agent behaviour engine (updateAgents, reproduceAgents), the             *)
(* consciousness evaluator and the world/resource manager.                 *)
(*                                                                         *)
(* Numbers of the program are IEEE doubles; the model keeps them as        *)
(* fixed-point integers, rounded toward minus infinity:                    *)
(*   time, age, lifespan, cooldown ....... whole simulated time units      *)
(*   energy ............................... tenths            (100 = 1000) *)
(*   position, radius, distance ........... hundredths of a world unit     *)
(*   velocity ............................. 1e-6 world units per time unit *)
(*   traits, rates ........................ thousandths                    *)
(*   cell resource levels ................. 1e-4                (1 = 10000)*)
(*   resource amounts ..................... 1e-4              (100 = 1e6)  *)
(*   consciousness components ............. thousandths                    *)
(*   consciousnessValue, thresholds ....... 1e-4               (100 = 1e6) *)
(***************************************************************************)
EXTENDS Integers, Naturals, Sequences, FiniteSets, TLC

VARIABLES
    agents,        \* world.agents: sequence of agent records
    memHeap,       \* the memory arrays, by reference
    senseHeap,     \* the sensorValues objects, by reference
    resources,     \* world.resources
    cellGrid,      \* world.cellGrid
    env,           \* world.environmentalParameters
    time,          \* world.time
    events,        \* world.events
    statistics,    \* world.statistics
    timeline,      \* store.timeline
    timeScale,     \* store.timeScale
    wallClock,     \* number of ticks applied so far: orders Date.now() and
                   \* lastUpdateTime, which is 0 until the first one
    nextId,        \* number of uuidv4() agent ids handed out so far
    controls,      \* number of control operations (setters, catastrophes, resets) so far
    lastTick,      \* what the last operation was and what it saw (observation only)
    pendingSave,   \* the world a running saveToDatabase has read and not yet serialized
    sentState      \* the last request body saveToDatabase has sent

vars == <<agents, memHeap, senseHeap, resources, cellGrid, env, time, events,
          statistics, timeline, timeScale, wallClock, nextId, controls,
          lastTick, pendingSave, sentState>>

----------------------------------------------------------------------------
(* Units and arithmetic helpers *)

Min(a, b) == IF a <= b THEN a ELSE b
Max(a, b) == IF a >= b THEN a ELSE b
Abs(a) == IF a < 0 THEN -a ELSE a

\* Body(v), with v evaluated once: the JavaScript `const x = v; ...`
With(v, Body(_)) == CHOOSE r \in {Body(x) : x \in {v}} : TRUE

RECURSIVE SqrtIter(_, _, _)
SqrtIter(n, lo, hi) ==
    IF lo >= hi THEN lo
    ELSE With((lo + hi + 1) \div 2,
              LAMBDA mid : IF mid * mid <= n THEN SqrtIter(n, mid, hi)
                           ELSE SqrtIter(n, lo, mid - 1))

\* Math.sqrt on a non-negative integer, rounded down
Sqrt(n) == SqrtIter(n, 0, 46340)

\* sum and maximum of s[1..n]
RECURSIVE SumTo(_, _)
SumTo(s, n) == IF n = 0 THEN 0 ELSE s[n] + SumTo(s, n - 1)
SumSeq(s) == SumTo(s, Len(s))

RECURSIVE MaxTo(_, _)
MaxTo(s, n) == IF n = 1 THEN s[1] ELSE Max(s[n], MaxTo(s, n - 1))
MaxSeq(s) == MaxTo(s, Len(s))

\* the array s.map(F)
MapSeq(s, F(_)) == <<>> \o [i \in 1..Len(s) |-> F(s[i])]

SeqRange(s) == {s[i] : i \in 1..Len(s)}

----------------------------------------------------------------------------
(* Vector utilities *)

\* squared euclidean distance of two positions <<x, y, z>>
DistSq(p1, p2) ==
    (p2[1] - p1[1]) * (p2[1] - p1[1]) + (p2[2] - p1[2]) * (p2[2] - p1[2])
        + (p2[3] - p1[3]) * (p2[3] - p1[3])

calculateDistance(p1, p2) == Sqrt(DistSq(p1, p2))

\* calculateDistance(p1, p2) <= r, decided on the squares (no rounding)
WithinDistance(p1, p2, r) == DistSq(p1, p2) <= r * r

calculateDirection(p1, p2) == <<p2[1] - p1[1], p2[2] - p1[2], p2[3] - p1[3]>>

\* unit vector scaled by `speed`; the zero vector stays zero
normalizeVector(v, speed) ==
    With(Sqrt(v[1] * v[1] + v[2] * v[2] + v[3] * v[3]),
         LAMBDA length :
            IF length = 0 THEN <<0, 0, 0>>
            ELSE <<(v[1] * speed) \div length, (v[2] * speed) \div length,
                   (v[3] * speed) \div length>>)

----------------------------------------------------------------------------
(* Consciousness evaluator (consciousness.ts); components in millionths *)

ResourceSum(levels) == levels.food + levels.water + levels.light

calculateInformationIntegration(agent, memory, sense) ==
    LET traitFactor == 3 * agent.traits.curiosity + 4 * agent.traits.adaptability
                         + 3 * agent.traits.exploration
        \* visualInput, auditoryInput and tactileInput are never filled
        perceptualInputs == IF Len(sense.proximity) > 0 THEN 1 ELSE 0
        memoryFactor == Min(20, Len(memory))
    IN 40 * traitFactor + 75000 * perceptualInputs + 10000 * memoryFactor
         + (10 * ResourceSum(sense.resourceLevels)) \div 3

calculateSelfModeling(agent, memory) ==
    LET selfActionMemories ==
            Cardinality({i \in 1..Len(memory) : memory[i].type \in {"action", "feedback"}})
        actionVariety == IF Len(memory) > 0
                         THEN Cardinality({memory[i].type : i \in 1..Len(memory)})
                         ELSE 0
        ageFactor == IF agent.age >= agent.lifespan THEN 200000
                     ELSE (200000 * agent.age) \div agent.lifespan
    IN 20000 * Min(15, selfActionMemories) + 75000 * actionVariety
         + 20000 * Min(10, agent.generation) + ageFactor

calculateDecisionFreedom(agent, sense) ==
    LET energyFactor == 300 * Min(1000, agent.energy)
        proximityCount ==
            Cardinality({i \in 1..Len(sense.proximity) : sense.proximity[i].type = "agent"})
        socialFreedom == 20000 * Max(0, 10 - proximityCount)
    IN energyFactor + 210000 + (20 * ResourceSum(sense.resourceLevels)) \div 3
         + socialFreedom

\* B(S) = Phi * sigma * delta, scaled to 0..100 and capped above only
calculateConsciousness(agent, memory, sense) ==
    LET integration == calculateInformationIntegration(agent, memory, sense) \div 1000
        selfModeling == calculateSelfModeling(agent, memory) \div 1000
        decisionFreedom == calculateDecisionFreedom(agent, sense) \div 1000
    IN Min(1000000, (integration * selfModeling * decisionFreedom) \div 1000)

----------------------------------------------------------------------------
(* Initial agents (createInitialAgents) *)

EmptySensorValues ==
    [proximity |-> <<>>, resourceLevels |-> [light |-> 0, food |-> 0, water |-> 0]]

\* The literal `adam`; eve = {...adam, id, position, color, traits} copies the
\* references to adam's sensorValues and memory objects.
AdamLiteral ==
    [id |-> "adam", position |-> <<-200, 0, 0>>, velocity |-> <<0, 0, 0>>,
     energy |-> 1000, age |-> 0, lifespan |-> 1000, generation |-> 1,
     perceptionRadius |-> 1000, movementSpeed |-> 50000,
     sensorValues |-> "adam", memory |-> "adam",
     reproductionThreshold |-> 700000, mutationRate |-> 100,
     consciousnessValue |-> 0, lastReproductionTime |-> 0, lastAction |-> "idle",
     reproductionCooldown |-> 100,
     traits |-> [curiosity |-> 700, socialAffinity |-> 600, resourceAffinity |-> 500,
                 exploration |-> 800, adaptability |-> 600]]

EveLiteral ==
    [AdamLiteral EXCEPT !.id = "eve", !.position = <<200, 0, 0>>,
        !.traits = [curiosity |-> 600, socialAffinity |-> 800, resourceAffinity |-> 700,
                    exploration |-> 500, adaptability |-> 700]]

\* initial agents whose consciousnessValue is left at the literal's 0
createInitialAgentsUnscored == <<AdamLiteral, EveLiteral>>

createInitialAgents ==
    <<[AdamLiteral EXCEPT !.consciousnessValue =
            calculateConsciousness(AdamLiteral, <<>>, EmptySensorValues)],
      [EveLiteral EXCEPT !.consciousnessValue =
            calculateConsciousness(EveLiteral, <<>>, EmptySensorValues)]>>

InitialMemHeap == [r \in {"adam"} |-> <<>>]
InitialSenseHeap == [r \in {"adam"} |-> EmptySensorValues]

----------------------------------------------------------------------------
(* World / resource manager (worldResources.ts) *)

GridSize == 10
Cells == (0..(GridSize - 1)) \X (0..(GridSize - 1))

\* Math.floor((coord + 50) / 10)
GridIndex(coord) == (coord + 5000) \div 1000

InGrid(x, z) == x >= 0 /\ x < GridSize /\ z >= 0 /\ z < GridSize

\* generateInitialResources draws positions and amounts with Math.random();
\* the model draws the whole list from this set of outcomes (one resource of
\* each kind instead of 25 / 15 / 10)
ResourceLayouts ==
    { << [id |-> "food1", type |-> "food", position |-> <<300, 0, 400>>,
          amount |-> 600000, regenerationRate |-> 100, lastRegeneration |-> 0],
         [id |-> "water1", type |-> "water", position |-> <<-2000, 0, 1000>>,
          amount |-> 1200000, regenerationRate |-> 200, lastRegeneration |-> 0],
         [id |-> "light1", type |-> "light", position |-> <<0, 1000, 500>>,
          amount |-> 1000000, regenerationRate |-> 0, lastRegeneration |-> 0] >> }

\* (1 - distance / influenceRadius) for a squared grid distance, in 1e-4
InfluenceFalloff(dSq) ==
    CASE dSq = 0 -> 10000
      [] dSq = 1 -> 5000
      [] dSq = 2 -> 2929
      [] OTHER -> 0

BaseLevels == [food |-> 1000, water |-> 1000, light |-> 5000]

\* what resource adds to the levels of cell c, followed by the cap at 1.0
AddInfluence(levels, resource, c) ==
    LET gridX == GridIndex(resource.position[1])
        gridZ == GridIndex(resource.position[3])
        dSq == (c[1] - gridX) * (c[1] - gridX) + (c[2] - gridZ) * (c[2] - gridZ)
        influence == (InfluenceFalloff(dSq) * (resource.amount \div 100)) \div 10000
    IN IF Abs(c[1] - gridX) > 2 \/ Abs(c[2] - gridZ) > 2 \/ dSq > 4 THEN levels
       ELSE [food |-> Min(10000, levels.food
                                    + IF resource.type = "food" THEN influence ELSE 0),
             water |-> Min(10000, levels.water
                                    + IF resource.type = "water" THEN influence ELSE 0),
             light |-> Min(10000, levels.light
                                    + IF resource.type = "light" THEN influence ELSE 0)]

\* the levels of cell c once the first n resources have been placed
RECURSIVE LevelsAfter(_, _, _)
LevelsAfter(res, n, c) ==
    IF n = 0 THEN BaseLevels
    ELSE With(LevelsAfter(res, n - 1, c), LAMBDA levels : AddInfluence(levels, res[n], c))

placeResourcesInCells(res, grid) ==
    [c \in Cells |-> [grid[c] EXCEPT !.resources = LevelsAfter(res, Len(res), c)]]

\* the grid initializeWorld hands to placeResourcesInCells; the random cell
\* levels are overwritten there
BlankCellGrid ==
    [c \in Cells |-> [resources |-> BaseLevels, occupied |-> FALSE, occupants |-> <<>>]]

InitialEnvironment ==
    [temperature |-> 500, lightLevel |-> 700, resourceAbundance |-> 800,
     resourceDistribution |-> 500, foodGrowthRate |-> 5, waterAvailability |-> 700,
     weatherCondition |-> "clear", catastropheChance |-> 1]

InitialStatistics ==
    [populationSize |-> 2, averageConsciousness |-> 0, maxConsciousness |-> 0,
     averageLifespan |-> 0, totalGenerations |-> 1, languageComplexity |-> 0,
     socialComplexity |-> 0, resourceConsumption |-> 0, speciesCount |-> 1]

\* a regeneration that forgets the time passed
updateResourceNoDelta(resource, deltaTime) ==
    IF resource.type = "light" THEN resource
    ELSE [resource EXCEPT
            !.amount = Min(1000000, resource.amount + resource.regenerationRate),
            !.lastRegeneration = resource.lastRegeneration + deltaTime]

updateResource(resource, deltaTime) ==
    IF resource.type = "light" THEN resource
    ELSE [resource EXCEPT
            !.amount = Min(1000000, resource.amount + resource.regenerationRate * deltaTime),
            !.lastRegeneration = resource.lastRegeneration + deltaTime]

updateResourceLevels(res, deltaTime) ==
    <<>> \o [i \in 1..Len(res) |-> updateResource(res[i], deltaTime)]

----------------------------------------------------------------------------
(* Agent behaviour engine (agentBehavior.ts) *)

MemoryCapacity == 50

\* the two comparators handed to Array.prototype.sort: addMemory orders by
\* intensity, then timestamp; performAction orders proximity by distance
SortsBefore(kind, a, b) ==
    IF kind = "memory"
    THEN (IF a.intensity = b.intensity THEN a.timestamp < b.timestamp
          ELSE a.intensity < b.intensity)
    ELSE a.distance < b.distance

\* Array.prototype.sort is stable: the place of s[i] in the sorted array is
\* one more than the number of elements that go before it
SortRank(kind, s, i) ==
    1 + Cardinality({j \in 1..Len(s) :
                        \/ SortsBefore(kind, s[j], s[i])
                        \/ (j < i /\ ~SortsBefore(kind, s[i], s[j]))})

SortBy(kind, s) ==
    With(<<>> \o [i \in 1..Len(s) |-> SortRank(kind, s, i)],
         LAMBDA ranks : <<>> \o [k \in 1..Len(s) |->
                                    s[CHOOSE i \in 1..Len(s) : ranks[i] = k]])

\* an addMemory that makes room by dropping the first entry of the array
addMemoryDropsFirst(log, memory) ==
    IF Len(log) >= MemoryCapacity THEN Append(Tail(log), memory) ELSE Append(log, memory)

\* an addMemory that makes room one entry too late
addMemoryLate(log, memory) ==
    IF Len(log) > MemoryCapacity
    THEN Append(Tail(SortBy("memory", log)), memory)
    ELSE Append(log, memory)

\* the array after addMemory(agent, memory)
addMemory(log, memory) ==
    IF Len(log) >= MemoryCapacity
    THEN Append(Tail(SortBy("memory", log)), memory)
    ELSE Append(log, memory)

\* one entry of sensorValues.proximity; `distance` holds the squared distance,
\* which orders the entries as the distance does
ProximityEntry(agent, type, other) ==
    [type |-> type, distance |-> DistSq(agent.position, other.position),
     direction |-> calculateDirection(agent.position, other.position),
     id |-> other.id]

\* the proximity list and resource levels written by updateSensorValues
updateSensorValues(agent, allAgents, res, grid, oldSense) ==
    LET near(o) == WithinDistance(agent.position, o.position, agent.perceptionRadius)
        other(o) == o.id # agent.id /\ near(o)
        agentEntry(o) == ProximityEntry(agent, "agent", o)
        resourceEntry(o) == ProximityEntry(agent, "resource", o)
        x == GridIndex(agent.position[1])
        z == GridIndex(agent.position[3])
    IN [proximity |-> MapSeq(SelectSeq(allAgents, other), agentEntry)
                        \o MapSeq(SelectSeq(res, near), resourceEntry),
        resourceLevels |-> IF InGrid(x, z) THEN grid[<<x, z>>].resources
                           ELSE oldSense.resourceLevels]

\* Array.prototype.find: the first element that satisfies Test, as a
\* one-element sequence, or <<>> for undefined
FindFirst(s, Test(_)) ==
    With(SelectSeq(s, Test), LAMBDA hits : IF hits = <<>> THEN <<>> ELSE <<hits[1]>>)

ReproductionReady(a) ==
    /\ a.consciousnessValue >= a.reproductionThreshold
    /\ a.age > a.lastReproductionTime + a.reproductionCooldown

\* draw.curious, .social, .resourceful, .wander: the outcomes of the four
\* tests Math.random() < p; a test with p = 0 cannot succeed
decideAction(agent, sense, allAgents, res, draw) ==
    LET isFood(p) == p.type = "resource"
                       /\ \E j \in 1..Len(res) : res[j].id = p.id /\ res[j].type = "food"
        isAgent(p) == p.type = "agent"
        isResource(p) == p.type = "resource"
        nearbyAgent == FindFirst(sense.proximity, isAgent)
        hasId(a) == a.id = nearbyAgent[1].id
        partner == FindFirst(allAgents, hasId)
    IN IF agent.energy < 300
       THEN (IF FindFirst(sense.proximity, isFood) # <<>> THEN "approach" ELSE "explore")
       ELSE IF ReproductionReady(agent)
       THEN (IF nearbyAgent # <<>>
             THEN (IF partner # <<>> /\ ReproductionReady(partner[1])
                   THEN "reproduce" ELSE "approach")
             ELSE "explore")
       ELSE IF draw.curious /\ agent.traits.curiosity > 0 THEN "explore"
       ELSE IF draw.social /\ agent.traits.socialAffinity > 0 /\ nearbyAgent # <<>>
       THEN "approach"
       ELSE IF draw.resourceful /\ agent.traits.resourceAffinity > 0
                /\ FindFirst(sense.proximity, isResource) # <<>>
       THEN "approach"
       ELSE IF draw.wander THEN "explore" ELSE "idle"

\* cos and sin of the explore angle Math.random() * 2 * PI, for the quarter turns
Angles == {0, 1, 2, 3}
Cos(k) == CASE k = 0 -> 1 [] k = 2 -> -1 [] OTHER -> 0
Sin(k) == CASE k = 1 -> 1 [] k = 3 -> -1 [] OTHER -> 0

Clamp(lo, hi, v) == Max(lo, Min(hi, v))

\* agent.velocity after the switch of performAction; `proximity` is the list
\* as the switch leaves it (sorted by approach and avoid)
ActionVelocity(agent, action, proximity, draw) ==
    LET speed == agent.movementSpeed
    IN CASE action = "move" ->
                <<(Cos(draw.angle) - Sin(draw.angle)) * speed, 0,
                  (Cos(draw.angle) + Sin(draw.angle)) * speed>>
         [] action = "explore" ->
                <<Cos(draw.angle) * speed, 0, Sin(draw.angle) * speed>>
         [] action = "approach" /\ proximity # <<>> ->
                With(normalizeVector(proximity[1].direction, speed),
                     LAMBDA toward : <<toward[1], 0, toward[3]>>)
         [] action = "avoid" /\ proximity # <<>> ->
                With(normalizeVector(proximity[1].direction, speed),
                     LAMBDA toward : <<-toward[1], 0, -toward[3]>>)
         [] action \in {"approach", "avoid", "consume", "reproduce", "communicate"} ->
                agent.velocity
         [] OTHER -> <<0, 0, 0>>

ActionMemory(now, action, intensity) ==
    [timestamp |-> now, type |-> "action", data |-> action, intensity |-> intensity]

\* case 'consume': the agent, its memory array and the resources afterwards
Consume(agent, proximity, log, res, now) ==
    LET isResource(p) == p.type = "resource"
        nearbyFood == FindFirst(proximity, isResource)
        resourceIndex == IF nearbyFood = <<>> THEN {}
                         ELSE {j \in 1..Len(res) : res[j].id = nearbyFood[1].id}
        eaten == CHOOSE j \in resourceIndex : \A k \in resourceIndex : j <= k
        amountConsumed == Min(res[eaten].amount, 100000)
    IN IF resourceIndex = {} THEN [agent |-> agent, log |-> log, res |-> res]
       ELSE [agent |-> [agent EXCEPT !.energy =
                            Min(1000, agent.energy + (amountConsumed * 5) \div 1000)],
             log |-> addMemory(log, ActionMemory(now, "consume", 700)),
             res |-> [res EXCEPT ![eaten].amount = @ - amountConsumed]]

\* case 'communicate': the memory array afterwards
Communicate(proximity, log, now) ==
    IF \E j \in 1..Len(proximity) : proximity[j].type = "agent"
    THEN addMemory(log, ActionMemory(now, "communicate", 600))
    ELSE log

\* performAction on the objects the agent refers to: returns the agent, its
\* sensorValues object, its memory array and the resources array afterwards
performAction(agent0, action, sense0, log0, res0, deltaTime, draw, now) ==
    With(IF action \in {"approach", "avoid"} THEN SortBy("proximity", sense0.proximity)
         ELSE sense0.proximity,
      LAMBDA proximity :
    With(IF action = "consume" THEN Consume(agent0, proximity, log0, res0, now)
         ELSE [agent |-> agent0, res |-> res0,
               log |-> IF action = "communicate" THEN Communicate(proximity, log0, now)
                       ELSE log0],
      LAMBDA fed :
    With(ActionVelocity(agent0, action, proximity, draw),
      LAMBDA velocity :
        [agent |-> [fed.agent EXCEPT
                        !.lastAction = action,
                        !.velocity = velocity,
                        !.position =
                            <<Clamp(-5000, 5000, @[1] + (velocity[1] * deltaTime) \div 10000),
                              @[2],
                              Clamp(-5000, 5000, @[3] + (velocity[3] * deltaTime) \div 10000)>>],
         sense |-> [sense0 EXCEPT !.proximity = proximity],
         log |-> fed.log,
         res |-> fed.res])))

DeathEvent(id) == [type |-> "death", affectedAgents |-> <<id>>]

\* a lifespan test that lets an agent live ten times as long
DiesOfOldAgeLate(agent) == agent.age >= 10 * agent.lifespan

\* the test that ends the loop body: the agent has reached its lifespan
DiesOfOldAge(agent) == agent.age >= agent.lifespan

\* the loop body of updateAgents once the agent has passed the energy check
ActOn(st, i, grid, deltaTime, draw, now) ==
    With([st.objs[i] EXCEPT !.age = @ + deltaTime, !.energy = @ - deltaTime],
      LAMBDA aged :
    With(updateSensorValues(aged, st.objs, st.res, grid, st.sense[aged.sensorValues]),
      LAMBDA sensed :
    With(decideAction(aged, sensed, st.objs, st.res, draw),
      LAMBDA action :
    With(performAction(aged, action, sensed, st.mem[aged.memory], st.res,
                       deltaTime, draw, now),
      LAMBDA done :
    With(IF action # "idle" THEN addMemory(done.log, ActionMemory(now, action, 500))
         ELSE done.log,
      LAMBDA log :
    With(calculateConsciousness(done.agent, log, done.sense),
      LAMBDA score :
        [st EXCEPT
            !.objs[i].position = done.agent.position,
            !.mem[aged.memory] = log,
            !.sense[aged.sensorValues] = done.sense,
            !.res = done.res,
            !.scores = Append(@, score),
            !.acted = Append(@, aged.id),
            !.events = IF DiesOfOldAge(done.agent)
                       THEN Append(@, DeathEvent(aged.id)) ELSE @,
            !.updatedAgents = IF DiesOfOldAge(done.agent) THEN @
                              ELSE Append(@, [done.agent EXCEPT
                                                  !.consciousnessValue = score])]))))))

\* an iteration of the loop that lets an agent stay however old or weak it is
updateAgentSparing(st, i, grid, deltaTime, draw, now) ==
    IF st.objs[i].energy > 0 /\ st.objs[i].age + deltaTime < st.objs[i].lifespan
    THEN ActOn(st, i, grid, deltaTime, draw, now)
    ELSE [st EXCEPT !.updatedAgents = Append(@, st.objs[i])]

\* an iteration of the loop that does not look at the energy first
updateAgentUnchecked(st, i, grid, deltaTime, draw, now) ==
    ActOn(st, i, grid, deltaTime, draw, now)

\* One iteration of the loop of updateAgents, for agents[i].  st.objs are the
\* agent objects of the list passed in (their position objects are shared
\* with the copies and so move with them), st.mem and st.sense the heap.
updateAgent(st, i, grid, deltaTime, draw, now) ==
    IF st.objs[i].energy <= 0
    THEN [st EXCEPT !.events = Append(@, DeathEvent(st.objs[i].id))]
    ELSE ActOn(st, i, grid, deltaTime, draw, now)

RECURSIVE updateAgentsFrom(_, _, _, _, _, _)
updateAgentsFrom(st, i, grid, deltaTime, draws, now) ==
    IF i > Len(st.objs) THEN st
    ELSE With(updateAgent(st, i, grid, deltaTime, draws[i], now),
              LAMBDA next : updateAgentsFrom(next, i + 1, grid, deltaTime, draws, now))

updateAgents(agentList, mem, sense, res, grid, deltaTime, draws, now) ==
    updateAgentsFrom([objs |-> agentList, mem |-> mem, sense |-> sense, res |-> res,
                      updatedAgents |-> <<>>, events |-> <<>>,
                      scores |-> <<>>, acted |-> <<>>],
                     1, grid, deltaTime, draws, now)

----------------------------------------------------------------------------
(* Evolution engine (evolutionSystem.ts) and the reproduction pass *)

\* uuidv4() hands out fresh identifiers
IdPool == <<"child1", "child2", "child3", "child4">>

\* applyMutation(value, factor) for one outcome of its two Math.random() calls:
\* "none" (no mutation, the only outcome at mutationRate 0), "low" (delta =
\* -factor) or "high" (delta = +factor / 2); `one` is the value 1.0
applyMutation(outcome, rate, value, factor, one) ==
    IF outcome = "none" \/ rate <= 0 THEN value
    ELSE IF outcome = "low" THEN Max(0, Min(one, value - factor))
    ELSE Max(0, Min(one, value + factor \div 2))

MutationOutcomes == {"none", "low", "high"}

\* mutateAgent with every field mutating the way `outcome` says
mutateAgent(agent, outcome) ==
    LET rate == agent.mutationRate
        mutated(value) == applyMutation(outcome, rate, value, 200, 1000)
        lifespanFactor == applyMutation(outcome, rate, 1000, 100, 1000)
    IN [agent EXCEPT
          !.perceptionRadius = applyMutation(outcome, rate, agent.perceptionRadius, 200, 1000),
          !.movementSpeed = applyMutation(outcome, rate, agent.movementSpeed, 10000, 50000),
          !.lifespan = (agent.lifespan * lifespanFactor) \div 1000,
          !.mutationRate = applyMutation(outcome, rate, rate, 50, 1000),
          !.traits = [curiosity |-> mutated(agent.traits.curiosity),
                      socialAffinity |-> mutated(agent.traits.socialAffinity),
                      resourceAffinity |-> mutated(agent.traits.resourceAffinity),
                      exploration |-> mutated(agent.traits.exploration),
                      adaptability |-> mutated(agent.traits.adaptability)]]

BirthMemory(now) ==
    [timestamp |-> now, type |-> "observation", data |-> "birth", intensity |-> 1000]

createOffspring(parent1, parent2, id, outcome) ==
    LET mean(a, b) == (a + b) \div 2
        offspring ==
            [id |-> id,
             position |-> <<mean(parent1.position[1], parent2.position[1]), 0,
                            mean(parent1.position[3], parent2.position[3])>>,
             velocity |-> <<0, 0, 0>>,
             energy |-> 500, age |-> 0,
             lifespan |-> ((parent1.lifespan + parent2.lifespan) * 11) \div 20,
             generation |-> Max(parent1.generation, parent2.generation) + 1,
             perceptionRadius |-> mean(parent1.perceptionRadius, parent2.perceptionRadius),
             movementSpeed |-> mean(parent1.movementSpeed, parent2.movementSpeed),
             sensorValues |-> id, memory |-> id,
             reproductionThreshold |->
                 mean(parent1.reproductionThreshold, parent2.reproductionThreshold),
             mutationRate |-> mean(parent1.mutationRate, parent2.mutationRate),
             consciousnessValue |-> 0, lastReproductionTime |-> 0, lastAction |-> "idle",
             reproductionCooldown |->
                 mean(parent1.reproductionCooldown, parent2.reproductionCooldown),
             traits |-> [t \in DOMAIN parent1.traits |->
                            mean(parent1.traits[t], parent2.traits[t])]]
        mutatedOffspring == mutateAgent(offspring, outcome)
    IN [mutatedOffspring EXCEPT !.consciousnessValue =
            calculateConsciousness(mutatedOffspring, <<>>, EmptySensorValues)]

ReadyToReproduce(agent) ==
    /\ agent.consciousnessValue >= agent.reproductionThreshold
    /\ agent.lastAction = "reproduce"
    /\ agent.age > agent.lastReproductionTime + agent.reproductionCooldown

ReproductionMemory(currentTime) ==
    [timestamp |-> currentTime, type |-> "action", data |-> "reproduce", intensity |-> 900]

\* the pair (i, j) reproduces: the offspring is built from the parents as they
\* are, then both parent objects and their memory arrays are updated in place
Reproduce(rs, i, j, currentTime, outcome, now) ==
    LET agent1 == rs.agents[i]
        agent2 == rs.agents[j]
        id == IdPool[rs.nextId + 1]
        offspring == createOffspring(agent1, agent2, id, outcome)
        mem1 == [rs.mem EXCEPT ![agent1.memory] =
                    addMemory(rs.mem[agent1.memory], ReproductionMemory(currentTime))]
        mem2 == [mem1 EXCEPT ![agent2.memory] =
                    addMemory(mem1[agent2.memory], ReproductionMemory(currentTime))]
    IN [rs EXCEPT
          !.agents[i].lastReproductionTime = currentTime,
          !.agents[j].lastReproductionTime = currentTime,
          !.agents[i].energy = Max(100, agent1.energy - 200),
          !.agents[j].energy = Max(100, agent2.energy - 200),
          !.mem = mem2 @@ (id :> addMemory(<<>>, BirthMemory(now))),
          !.sense = rs.sense @@ (id :> EmptySensorValues),
          !.reproduced = rs.reproduced \cup {i, j},
          !.pairs = Append(rs.pairs, <<agent1.id, agent2.id, id>>),
          !.offspringAgents = Append(rs.offspringAgents, offspring),
          !.nextId = rs.nextId + 1]

\* the outer loop of reproduceAgents over readyAgents (indices into the agent
\* list), from position k on; the inner loop takes the first later agent that
\* has not reproduced and is within distance 2
RECURSIVE PairFrom(_, _, _, _, _, _)
PairFrom(rs, ready, k, currentTime, outcome, now) ==
    IF k > Len(ready) THEN rs
    ELSE LET i == ready[k]
             partners == {m \in (k + 1)..Len(ready) :
                            /\ ready[m] \notin rs.reproduced
                            /\ WithinDistance(rs.agents[i].position,
                                              rs.agents[ready[m]].position, 200)}
         IN IF i \in rs.reproduced \/ partners = {}
            THEN PairFrom(rs, ready, k + 1, currentTime, outcome, now)
            ELSE With(Reproduce(rs, i, ready[CHOOSE n \in partners : \A o \in partners : n <= o],
                                currentTime, outcome, now),
                      LAMBDA next : PairFrom(next, ready, k + 1, currentTime, outcome, now))

\* a filter that lets every agent through
readyAgentsUnfiltered(agentList) == <<>> \o [i \in 1..Len(agentList) |-> i]

\* agents.filter(...): the indices of the agents that are ready
readyAgents(agentList) ==
    SelectSeq(<<>> \o [i \in 1..Len(agentList) |-> i],
              LAMBDA i : ReadyToReproduce(agentList[i]))

reproduceAgents(agentList, mem, sense, currentTime, ids, outcome, now) ==
    With(readyAgents(agentList),
         LAMBDA ready :
            PairFrom([agents |-> agentList, mem |-> mem, sense |-> sense,
                      reproduced |-> {}, pairs |-> <<>>, offspringAgents |-> <<>>,
                      nextId |-> ids],
                     ready, 1, currentTime, outcome, now))

----------------------------------------------------------------------------
(* The store useSimulation: statistics, timeline and cell occupancy *)

EmptyStatistics ==
    [populationSize |-> 0, averageConsciousness |-> 0, maxConsciousness |-> 0,
     averageLifespan |-> 0, totalGenerations |-> 0, languageComplexity |-> 0,
     socialComplexity |-> 0, resourceConsumption |-> 0, speciesCount |-> 0]

\* a signature that cuts the tenths off instead of rounding to them
TraitSignatureTruncated(agent) ==
    <<agent.traits.curiosity \div 100, agent.traits.socialAffinity \div 100>>

\* `${Math.round(curiosity*10)}-${Math.round(socialAffinity*10)}`
TraitSignature(agent) ==
    <<(agent.traits.curiosity + 50) \div 100, (agent.traits.socialAffinity + 50) \div 100>>

\* languageComplexity and socialComplexity in millionths, resourceConsumption in tenths
calculateStatistics(agentList) ==
    IF Len(agentList) = 0 THEN EmptyStatistics
    ELSE LET n == Len(agentList)
             consciousnessOf(a) == a.consciousnessValue
             generationOf(a) == a.generation
             lifespanOf(a) == a.lifespan
         IN With(MaxSeq(MapSeq(agentList, consciousnessOf)),
              LAMBDA maxConsciousness :
            With(MaxSeq(MapSeq(agentList, generationOf)),
              LAMBDA maxGeneration :
                [populationSize |-> n,
                 averageConsciousness |-> SumSeq(MapSeq(agentList, consciousnessOf)) \div n,
                 maxConsciousness |-> maxConsciousness,
                 averageLifespan |-> SumSeq(MapSeq(agentList, lifespanOf)) \div n,
                 totalGenerations |-> maxGeneration,
                 languageComplexity |->
                     Min(1000000, (maxGeneration * maxConsciousness) \div 10),
                 socialComplexity |-> Min(1000000, (n * maxConsciousness) \div 20),
                 resourceConsumption |-> n * 5,
                 speciesCount |->
                     Cardinality({TraitSignature(agentList[i]) : i \in 1..n})]))

TimelineEvent(type, significance, timestamp) ==
    [type |-> type, significance |-> significance, timestamp |-> timestamp]

\* a check that also reports a generation count that did not rise
checkForSignificantEventsEager(newStats, oldStats, worldTime) ==
    (IF newStats.speciesCount > oldStats.speciesCount
     THEN <<TimelineEvent("mutation", 700, worldTime)>> ELSE <<>>)
    \o (IF newStats.populationSize \div 10 > oldStats.populationSize \div 10
        THEN <<TimelineEvent("population", 500, worldTime)>> ELSE <<>>)
    \o (IF newStats.languageComplexity > oldStats.languageComplexity + 200000
        THEN <<TimelineEvent("language", 800, worldTime)>> ELSE <<>>)
    \o (IF newStats.socialComplexity > oldStats.socialComplexity + 200000
        THEN <<TimelineEvent("social", 700, worldTime)>> ELSE <<>>)
    \o (IF newStats.totalGenerations >= oldStats.totalGenerations
        THEN <<TimelineEvent("population", 400, worldTime)>> ELSE <<>>)

\* the events checkForSignificantEvents tracks, in order; stamped store.world.time
checkForSignificantEvents(newStats, oldStats, worldTime) ==
    (IF newStats.speciesCount > oldStats.speciesCount
     THEN <<TimelineEvent("mutation", 700, worldTime)>> ELSE <<>>)
    \o (IF newStats.populationSize \div 10 > oldStats.populationSize \div 10
        THEN <<TimelineEvent("population", 500, worldTime)>> ELSE <<>>)
    \o (IF newStats.languageComplexity > oldStats.languageComplexity + 200000
        THEN <<TimelineEvent("language", 800, worldTime)>> ELSE <<>>)
    \o (IF newStats.socialComplexity > oldStats.socialComplexity + 200000
        THEN <<TimelineEvent("social", 700, worldTime)>> ELSE <<>>)
    \o (IF newStats.totalGenerations > oldStats.totalGenerations
        THEN <<TimelineEvent("population", 400, worldTime)>> ELSE <<>>)

\* agents.forEach of updateCellGrid, from agentList[i] on
RECURSIVE OccupyFrom(_, _, _)
OccupyFrom(grid, agentList, i) ==
    IF i > Len(agentList) THEN grid
    ELSE LET x == GridIndex(agentList[i].position[1])
             z == GridIndex(agentList[i].position[3])
         IN With(IF InGrid(x, z)
                 THEN [grid EXCEPT ![<<x, z>>].occupied = TRUE,
                                   ![<<x, z>>].occupants = Append(@, agentList[i].id)]
                 ELSE grid,
                 LAMBDA next : OccupyFrom(next, agentList, i + 1))

\* an update that adds the agents to the occupancy it finds
updateCellGridKeeping(grid, agentList) == OccupyFrom(grid, agentList, 1)

updateCellGrid(grid, agentList) ==
    With([c \in Cells |-> [grid[c] EXCEPT !.occupied = FALSE, !.occupants = <<>>]],
         LAMBDA cleared : OccupyFrom(cleared, agentList, 1))

\* the heap objects still referenced from an agent list
LiveMemory(agentList, mem) ==
    [r \in {agentList[i].memory : i \in 1..Len(agentList)} |-> mem[r]]
LiveSensors(agentList, sense) ==
    [r \in {agentList[i].sensorValues : i \in 1..Len(agentList)} |-> sense[r]]

----------------------------------------------------------------------------
(* calculateResourceDistribution (worldResources.ts) *)

\* a drought that leaves the food as it is
WeatherImpactMild(weatherCondition) ==
    CASE weatherCondition = "rain" -> [food |-> 10, water |-> 15, light |-> 7]
      [] weatherCondition = "storm" -> [food |-> 8, water |-> 20, light |-> 3]
      [] weatherCondition = "drought" -> [food |-> 10, water |-> 3, light |-> 12]
      [] OTHER -> [food |-> 10, water |-> 10, light |-> 10]

\* weatherImpact, in tenths
WeatherImpact(weatherCondition) ==
    CASE weatherCondition = "rain" -> [food |-> 10, water |-> 15, light |-> 7]
      [] weatherCondition = "storm" -> [food |-> 8, water |-> 20, light |-> 3]
      [] weatherCondition = "drought" -> [food |-> 6, water |-> 3, light |-> 12]
      [] OTHER -> [food |-> 10, water |-> 10, light |-> 10]

\* Math.pow(level, amplifyFactor) for amplifyFactor = 1 + (distribution - 0.5) * 2;
\* the model evaluates it for the exponents 1.5 and 2 (distribution 0.75 and 1)
PowLevel(level, resourceDistribution) ==
    IF resourceDistribution = 1000 THEN (level * level) \div 10000
    ELSE (level * Sqrt(level * 10000)) \div 10000

DistributeLevel(level, resourceDistribution) ==
    IF resourceDistribution > 500 THEN PowLevel(level, resourceDistribution)
    ELSE (level * resourceDistribution + 5000 * (1000 - resourceDistribution)) \div 1000

\* the resources of one cell after calculateResourceDistribution
DistributeCell(levels, parameters) ==
    LET impact == WeatherImpact(parameters.weatherCondition)
        abundance == parameters.resourceAbundance
        distribution == parameters.resourceDistribution
    IN [food |-> DistributeLevel(
                    Min(10000, (levels.food * abundance * impact.food) \div 10000),
                    distribution),
        water |-> DistributeLevel(
                    Min(10000, (levels.water * abundance * impact.water) \div 10000),
                    distribution),
        light |-> Min(10000, (levels.light * impact.light) \div 10)]

calculateResourceDistribution(grid, parameters) ==
    [c \in Cells |-> [grid[c] EXCEPT !.resources = DistributeCell(@, parameters)]]

----------------------------------------------------------------------------
(* Bounds and input sets *)

MaxTicks == 2
MaxControls == 1

\* deltaTime arguments of updateSimulation (seconds), the time scales offered
\* by TimeControls, and the real time since the last applied update (ms)
DeltaTimes == {40}
TimeScales == {1, 100}
ElapsedMs == {16, 100}

\* outcomes of the Math.random() calls of one agent's decideAction/performAction
Draws ==
    { [curious |-> TRUE, social |-> FALSE, resourceful |-> FALSE, wander |-> FALSE, angle |-> 0],
      [curious |-> FALSE, social |-> TRUE, resourceful |-> TRUE, wander |-> TRUE, angle |-> 1],
      [curious |-> FALSE, social |-> FALSE, resourceful |-> FALSE, wander |-> FALSE, angle |-> 0] }

\* arguments of setEnvironmentalParameter: the parameter and its new value
EnvChanges == {<<"resourceAbundance", 0>>, <<"resourceDistribution", 1000>>}
WeatherConditions == {"drought"}
CatastropheTypes == {"meteor"}
\* catastrophe intensity, in tenths
Intensities == {5, 10}

----------------------------------------------------------------------------
(* The store *)

ThrottleMs == 100

\* Date.now(): later than every simulated time
Now == 1000000 + wallClock

\* what is observed of an agent list: per agent its id, position, energy, age,
\* lifespan and generation, whether reproduceAgents would take it for ready,
\* and its memory array
Snapshot(agentList, mem) ==
    MapSeq(agentList,
           LAMBDA a : [id |-> a.id, position |-> a.position, energy |-> a.energy,
                       age |-> a.age, lifespan |-> a.lifespan,
                       generation |-> a.generation, ready |-> ReadyToReproduce(a),
                       memory |-> mem[a.memory]])

NoTick ==
    [op |-> "init", deltaTime |-> 0, changed |-> FALSE, before |-> <<>>, after |-> <<>>,
     survivors |-> <<>>, scores |-> <<>>, acted |-> <<>>, deaths |-> <<>>, pairs |-> <<>>,
     resources |-> <<>>, regenerated |-> <<>>, intensity |-> 0, result |-> <<>>,
     sinceLast |-> 0, stale |-> <<>>, oldStatistics |-> EmptyStatistics,
     oldTimeline |-> <<>>]

\* no saveToDatabase is running; nothing has been sent
NoSave == [state |-> "none"]

\* The world object a running saveToDatabase holds, after a tick: its agent
\* objects share position and memory objects with the agents the tick worked
\* on, which `stale` shows as they are after the tick; its scalars are its own.
SaveAfterTick(save, stale) ==
    IF save.state = "none" THEN save
    ELSE [save EXCEPT !.agents =
            MapSeq(save.agents,
                   LAMBDA a : IF \E k \in 1..Len(stale) : stale[k].id = a.id
                              THEN With(stale[CHOOSE k \in 1..Len(stale) : stale[k].id = a.id],
                                        LAMBDA now : [a EXCEPT !.position = now.position,
                                                               !.memory = now.memory])
                              ELSE a)]

\* world: initializeWorld(), for one outcome of generateInitialResources
initializeWorld(layout) ==
    /\ agents' = createInitialAgents
    /\ memHeap' = InitialMemHeap
    /\ senseHeap' = InitialSenseHeap
    /\ resources' = layout
    /\ cellGrid' = placeResourcesInCells(layout, BlankCellGrid)
    /\ env' = InitialEnvironment
    /\ time' = 0
    /\ events' = <<>>
    /\ statistics' = InitialStatistics

Init ==
    /\ \E layout \in ResourceLayouts :
          /\ resources = layout
          /\ cellGrid = placeResourcesInCells(layout, BlankCellGrid)
    /\ agents = createInitialAgents
    /\ memHeap = InitialMemHeap
    /\ senseHeap = InitialSenseHeap
    /\ env = InitialEnvironment
    /\ time = 0
    /\ events = <<>>
    /\ statistics = InitialStatistics
    /\ timeline = <<>>
    /\ timeScale = 1
    /\ wallClock = 0
    /\ nextId = 0
    /\ controls = 0
    /\ lastTick = NoTick
    /\ pendingSave = NoSave
    /\ sentState = NoSave

\* the outcomes of mutateAgent that matter: none when no pair reproduces
OutcomesFor(agentList) ==
    IF Len(readyAgents(agentList)) >= 2 THEN MutationOutcomes ELSE {"none"}

\* updateSimulation(deltaTime) once the throttle lets it through
ApplyTick(deltaTime, draws, sinceLast) ==
    \E scaledDelta \in {deltaTime * timeScale} :
    \E updatedResources \in {updateResourceLevels(resources, scaledDelta)} :
    \E ua \in {updateAgents(agents, memHeap, senseHeap, updatedResources, cellGrid,
                            scaledDelta, draws, Now)} :
    \E outcome \in OutcomesFor(ua.updatedAgents) :
    \E rp \in {reproduceAgents(ua.updatedAgents, ua.mem, ua.sense, time, nextId,
                               outcome, Now)} :
    \E allAgents \in {rp.agents \o rp.offspringAgents} :
    \E newStatistics \in {calculateStatistics(allAgents)} :
       /\ wallClock' = wallClock + 1
       /\ time' = time + scaledDelta
       /\ agents' = allAgents
       /\ memHeap' = LiveMemory(allAgents, rp.mem)
       /\ senseHeap' = LiveSensors(allAgents, rp.sense)
       /\ resources' = ua.res
       /\ events' = events \o ua.events
       /\ statistics' = newStatistics
       /\ timeline' = timeline \o checkForSignificantEvents(newStatistics, statistics, time)
       /\ cellGrid' = updateCellGrid(cellGrid, allAgents)
       /\ nextId' = rp.nextId
       /\ lastTick' = [op |-> "tick", deltaTime |-> scaledDelta, changed |-> TRUE,
                       before |-> Snapshot(agents, memHeap),
                       after |-> Snapshot(agents, ua.mem),
                       survivors |-> Snapshot(ua.updatedAgents, ua.mem),
                       scores |-> ua.scores, acted |-> ua.acted,
                       deaths |-> ua.events, pairs |-> rp.pairs,
                       resources |-> resources, regenerated |-> updatedResources,
                       intensity |-> 0, result |-> <<>>, sinceLast |-> sinceLast,
                       stale |-> Snapshot(ua.objs, rp.mem),
                       oldStatistics |-> statistics, oldTimeline |-> timeline]
       /\ pendingSave' = SaveAfterTick(pendingSave, Snapshot(ua.objs, rp.mem))
       /\ UNCHANGED <<env, timeScale, controls, sentState>>

\* a throttle that lets a call through after a tenth of the time
ThrottledShort(sinceLast) == sinceLast < ThrottleMs \div 10

\* currentTime - lastUpdateTime < 100
Throttled(sinceLast) == sinceLast < ThrottleMs

\* elapsed = Date.now() - lastUpdateTime; lastUpdateTime is 0 before the first
\* applied update, so that one is never throttled
updateSimulation ==
    \E deltaTime \in DeltaTimes, elapsed \in ElapsedMs :
    \E sinceLast \in {IF wallClock > 0 THEN elapsed ELSE Now} :
        IF Throttled(sinceLast)
        THEN UNCHANGED vars
        ELSE /\ wallClock < MaxTicks
             /\ nextId + Len(agents) \div 2 <= Len(IdPool)
             /\ \E draws \in [1..Len(agents) -> Draws] :
                   ApplyTick(deltaTime, draws, sinceLast)

\* setEnvironmentalParameter(param, value)
setParameter(param, value) ==
    /\ controls < MaxControls
    /\ controls' = controls + 1
    /\ env' = [env EXCEPT ![param] = value]
    /\ lastTick' = [NoTick EXCEPT !.op = "setEnvironmentalParameter",
                                  !.changed = env[param] # value]
    /\ UNCHANGED <<pendingSave, sentState>>
    /\ UNCHANGED <<agents, memHeap, senseHeap, resources, cellGrid, time, events,
                   statistics, timeline, timeScale, wallClock, nextId>>

setEnvironmentalParameter ==
    \E change \in EnvChanges : setParameter(change[1], change[2])

setWeatherCondition ==
    \E condition \in WeatherConditions :
        /\ controls < MaxControls
        /\ controls' = controls + 1
        /\ env' = [env EXCEPT !.weatherCondition = condition]
        /\ lastTick' = [NoTick EXCEPT !.op = "setWeatherCondition",
                                      !.changed = env.weatherCondition # condition]
        /\ UNCHANGED <<pendingSave, sentState>>
        /\ UNCHANGED <<agents, memHeap, senseHeap, resources, cellGrid, time, events,
                       statistics, timeline, timeScale, wallClock, nextId>>

\* a catastrophe that always takes 30%
AfterCatastropheFlat(resource, intensity) ==
    [resource EXCEPT !.amount = Max(0, (@ * 70) \div 100)]

\* amount * (1 - intensity * 0.3), floored at 0
AfterCatastrophe(resource, intensity) ==
    [resource EXCEPT !.amount = Max(0, (@ * (100 - 3 * intensity)) \div 100)]

\* triggerCatastrophe(type, intensity)
catastrophe(type, intensity) ==
    /\ controls < MaxControls
    /\ controls' = controls + 1
    /\ events' = Append(events,
            [type |-> type, affectedAgents |-> MapSeq(agents, LAMBDA a : a.id)])
    /\ resources' = MapSeq(resources, LAMBDA r : AfterCatastrophe(r, intensity))
    /\ timeline' = Append(timeline, TimelineEvent("extinction", intensity * 100, time))
    /\ lastTick' = [NoTick EXCEPT !.op = "triggerCatastrophe", !.intensity = intensity,
                                  !.changed = TRUE]
    /\ UNCHANGED <<pendingSave, sentState>>
    /\ UNCHANGED <<agents, memHeap, senseHeap, cellGrid, env, time, statistics,
                   timeScale, wallClock, nextId>>

triggerCatastrophe ==
    \E type \in CatastropheTypes, intensity \in Intensities : catastrophe(type, intensity)

resetSimulation ==
    /\ controls < MaxControls
    /\ controls' = controls + 1
    /\ \E layout \in ResourceLayouts : initializeWorld(layout)
    /\ timeline' = <<>>
    /\ lastTick' = [NoTick EXCEPT !.op = "resetSimulation"]
    /\ UNCHANGED <<pendingSave, sentState>>
    /\ UNCHANGED <<timeScale, wallClock, nextId>>

setTimeScale ==
    \E scale \in TimeScales :
        /\ controls < MaxControls
        /\ controls' = controls + 1
        /\ timeScale' = scale
        /\ lastTick' = [NoTick EXCEPT !.op = "setTimeScale", !.changed = timeScale # scale]
        /\ UNCHANGED <<pendingSave, sentState>>
        /\ UNCHANGED <<agents, memHeap, senseHeap, resources, cellGrid, env, time, events,
                       statistics, timeline, wallClock, nextId>>

Next ==
    \/ updateSimulation
    \/ setEnvironmentalParameter
    \/ setWeatherCondition
    \/ triggerCatastrophe
    \/ resetSimulation
    \/ setTimeScale

Spec == Init /\ [][Next]_vars

----------------------------------------------------------------------------
(* saveToDatabase: the store is read, the request is built after an await   *)

\* const { world, simulationId } = get()
saveToDatabase ==
    /\ pendingSave.state = "none"
    /\ pendingSave' = [state |-> "read", time |-> time, statistics |-> statistics,
                       agents |-> Snapshot(agents, memHeap),
                       read |-> Snapshot(agents, memHeap)]
    /\ UNCHANGED <<agents, memHeap, senseHeap, resources, cellGrid, env, time, events,
                   statistics, timeline, timeScale, wallClock, nextId, controls,
                   lastTick, sentState>>

\* body: JSON.stringify(data), once the awaited import has resolved
apiRequest ==
    /\ pendingSave.state = "read"
    /\ sentState' = [pendingSave EXCEPT !.state = "sent"]
    /\ pendingSave' = NoSave
    /\ UNCHANGED <<agents, memHeap, senseHeap, resources, cellGrid, env, time, events,
                   statistics, timeline, timeScale, wallClock, nextId, controls, lastTick>>

SpecSave == Init /\ [][updateSimulation \/ saveToDatabase \/ apiRequest]_vars

----------------------------------------------------------------------------
(* The setters called with values outside [0, 1]; nothing in the store      *)
(* keeps a caller from doing so                                             *)

\* parameter values in thousandths, intensities in tenths
OutOfRangeChanges == {<<"resourceAbundance", 1500>>, <<"resourceDistribution", -200>>,
                      <<"temperature", 2000>>}
OutOfRangeIntensities == {-5, 20, 40}

setOutOfRangeParameter ==
    \E change \in OutOfRangeChanges : setParameter(change[1], change[2])

triggerOutOfRangeCatastrophe ==
    \E type \in CatastropheTypes, intensity \in OutOfRangeIntensities :
        catastrophe(type, intensity)

SpecOutOfRange ==
    Init /\ [][updateSimulation \/ setOutOfRangeParameter
                  \/ triggerOutOfRangeCatastrophe]_vars

----------------------------------------------------------------------------
(* A world loaded from the database (loadFromDatabase): any world that was  *)
(* saved, with its objects unshared by the JSON round trip                  *)

StoredAgent(id, position, energy, age, lifespan, generation) ==
    [AdamLiteral EXCEPT !.id = id, !.position = position, !.energy = energy, !.age = age,
                        !.lifespan = lifespan, !.generation = generation,
                        !.sensorValues = id, !.memory = id]

\* an agent whose stored consciousness is at its reproduction threshold or above
ReadyAgent(id, position, energy, generation) ==
    [StoredAgent(id, position, energy, 300, 1000, generation) EXCEPT
        !.reproductionThreshold = 100000, !.consciousnessValue = 400000]

\* a memory array of n entries: a birth observation, then actions, one of
\* them fainter than the rest
StoredMemory(n) ==
    <<>> \o [k \in 1..n |->
                IF k = 1 THEN BirthMemory(900000)
                ELSE ActionMemory(900000 + k, "explore", IF k = 7 THEN 300 ELSE 500)]

\* the agents of a stored world and the length of each one's memory array
StoredPopulations ==
    { \* one agent without energy, and a child that has used all but 0.5 of
      \* the energy of 50 it was born with
      [agents |-> <<StoredAgent("a1", <<-200, 0, 0>>, 0, 100, 1000, 1),
                    StoredAgent("a2", <<200, 0, 0>>, 5, 495, 1100, 2)>>,
       memories |-> <<2, 1>>],
      \* two agents ready to reproduce, at the same place
      [agents |-> <<ReadyAgent("a1", <<100, 0, 100>>, 800, 2),
                    ReadyAgent("a2", <<100, 0, 100>>, 350, 3)>>,
       memories |-> <<3, 1>>],
      \* the same pair with memory arrays that are full or one short of it
      [agents |-> <<ReadyAgent("a1", <<100, 0, 100>>, 800, 2),
                    ReadyAgent("a2", <<100, 0, 100>>, 350, 3)>>,
       memories |-> <<MemoryCapacity, MemoryCapacity - 1>>],
      \* one agent about to die of old age with a full memory, one far from
      \* everything
      [agents |-> <<StoredAgent("a1", <<-200, 0, 0>>, 500, 990, 1000, 1),
                    StoredAgent("a2", <<4000, 0, 4000>>, 1000, 0, 1100, 2)>>,
       memories |-> <<MemoryCapacity, 0>>],
      \* three ready agents at the same place
      [agents |-> <<ReadyAgent("a1", <<100, 0, 100>>, 800, 2),
                    ReadyAgent("a2", <<100, 0, 100>>, 600, 3),
                    ReadyAgent("a3", <<100, 0, 100>>, 900, 1)>>,
       memories |-> <<5, 5, 5>>],
      \* two ordinary agents next to the food source, one of them hungry
      [agents |-> <<StoredAgent("a1", <<300, 0, 300>>, 250, 200, 1000, 1),
                    StoredAgent("a2", <<400, 0, 400>>, 900, 200, 1000, 1)>>,
       memories |-> <<MemoryCapacity - 1, 1>>],
      \* three ordinary agents spread over the world, the last one old
      [agents |-> <<StoredAgent("a1", <<-2000, 0, 900>>, 700, 400, 1000, 1),
                    StoredAgent("a2", <<0, 0, 0>>, 400, 600, 1100, 2),
                    StoredAgent("a3", <<3500, 0, -3500>>, 60, 950, 1000, 1)>>,
       memories |-> <<5, MemoryCapacity, 2>>],
      \* two agents of the twelfth generation, stored before their
      \* consciousness was computed
      [agents |-> <<StoredAgent("a1", <<-200, 0, 0>>, 800, 100, 1000, 12),
                    StoredAgent("a2", <<200, 0, 0>>, 700, 200, 1100, 12)>>,
       memories |-> <<MemoryCapacity, MemoryCapacity - 1>>],
      \* two agents whose curiosity, 0.65 and 0.7, rounds to the same tenth
      [agents |-> <<[StoredAgent("a1", <<-3000, 0, -3000>>, 900, 100, 1000, 2)
                        EXCEPT !.traits.curiosity = 650],
                    StoredAgent("a2", <<3000, 0, -3000>>, 900, 100, 1000, 1)>>,
       memories |-> <<1, 1>>],
      \* two agents with the traits of adam and of eve
      [agents |-> <<StoredAgent("a1", <<-3000, 0, -3000>>, 900, 100, 1000, 1),
                    [StoredAgent("a2", <<3000, 0, -3000>>, 900, 100, 1000, 1)
                        EXCEPT !.traits = EveLiteral.traits]>>,
       memories |-> <<1, 1>>],
      \* a hungry agent 4 away from the food source, with another agent 1 away
      \* from it on the other side
      [agents |-> <<StoredAgent("a1", <<300, 0, 0>>, 250, 200, 1000, 1),
                    StoredAgent("a2", <<200, 0, 0>>, 900, 200, 1000, 1)>>,
       memories |-> <<1, 1>>] }

\* world.time of the stored world
StoredTimes == {500}

LoadedInit ==
    /\ \E layout \in ResourceLayouts, population \in StoredPopulations :
          /\ resources = layout
          /\ agents = population.agents
          /\ memHeap = [r \in {a.id : a \in SeqRange(population.agents)} |->
                            StoredMemory(population.memories[
                                CHOOSE k \in 1..Len(population.agents) :
                                    population.agents[k].id = r])]
          /\ senseHeap = [r \in {a.id : a \in SeqRange(population.agents)} |->
                              EmptySensorValues]
          /\ cellGrid = updateCellGrid(placeResourcesInCells(layout, BlankCellGrid),
                                       population.agents)
          /\ statistics = calculateStatistics(population.agents)
    /\ env = InitialEnvironment
    /\ time \in StoredTimes
    /\ events = <<>>
    /\ timeline = <<>>
    /\ timeScale \in TimeScales
    /\ wallClock = 0
    /\ nextId = 0
    /\ controls = 0
    /\ lastTick = [NoTick EXCEPT !.op = "loadFromDatabase"]
    /\ pendingSave = NoSave
    /\ sentState = NoSave

SpecLoaded == LoadedInit /\ [][updateSimulation]_vars

----------------------------------------------------------------------------
(* calculateResourceDistribution on its own: nothing in the program calls   *)
(* it, so it is applied here to grids and parameters drawn from small sets  *)

Abundances == {0, 500, 800, 1000}
Distributions == {0, 500, 750, 1000}
AllWeatherConditions == {"clear", "rain", "storm", "drought"}

\* the grid of the initial world, and a grid the function itself returns
\* (for resourceAbundance 0): all of its food and water levels are 0
InputGrids ==
    {placeResourcesInCells(layout, BlankCellGrid) : layout \in ResourceLayouts}
    \cup {calculateResourceDistribution(
              placeResourcesInCells(layout, BlankCellGrid),
              [InitialEnvironment EXCEPT !.resourceAbundance = 0,
                                         !.resourceDistribution = 1000]) :
          layout \in ResourceLayouts}

CellLevels(grid) == [c \in Cells |-> grid[c].resources]

DistributionInit ==
    /\ cellGrid \in InputGrids
    /\ \E abundance \in Abundances, distribution \in Distributions,
          condition \in AllWeatherConditions :
          env = [InitialEnvironment EXCEPT !.resourceAbundance = abundance,
                                           !.resourceDistribution = distribution,
                                           !.weatherCondition = condition]
    /\ resources \in ResourceLayouts
    /\ agents = createInitialAgents
    /\ memHeap = InitialMemHeap
    /\ senseHeap = InitialSenseHeap
    /\ time = 0
    /\ events = <<>>
    /\ statistics = InitialStatistics
    /\ timeline = <<>>
    /\ timeScale = 1
    /\ wallClock = 0
    /\ nextId = 0
    /\ controls = 0
    /\ lastTick = [NoTick EXCEPT !.op = "input"]
    /\ pendingSave = NoSave
    /\ sentState = NoSave

\* the call calculateResourceDistribution(cellGrid, environmentalParameters);
\* it returns a changed deep copy and leaves its argument as it was
applyResourceDistribution ==
    /\ lastTick.op = "input"
    /\ lastTick' = [lastTick EXCEPT
                       !.op = "calculateResourceDistribution",
                       !.result = CellLevels(calculateResourceDistribution(cellGrid, env))]
    /\ UNCHANGED <<pendingSave, sentState>>
    /\ UNCHANGED <<agents, memHeap, senseHeap, resources, cellGrid, env, time, events,
                   statistics, timeline, timeScale, wallClock, nextId, controls>>

SpecDistribution == DistributionInit /\ [][applyResourceDistribution]_vars

----------------------------------------------------------------------------
(* The running simulation: SimulationUpdater calls updateSimulation from a
   setInterval timer for as long as the component is mounted, so a tick that
   can be applied is applied eventually. *)

SpecRunning ==
    Init /\ [][updateSimulation \/ setTimeScale]_vars /\ WF_vars(updateSimulation)

----------------------------------------------------------------------------
(* The initial world run to the end of its agents' lives, at the time scales
   10x and 100x of TimeControls *)

\* ticks applied; more than lifespan / (deltaTime * 10)
LifetimeTicks == 4

LifetimeScales == {10, 100}

LifetimeInit ==
    /\ \E layout \in ResourceLayouts :
          /\ resources = layout
          /\ cellGrid = placeResourcesInCells(layout, BlankCellGrid)
    /\ agents = createInitialAgents
    /\ memHeap = InitialMemHeap
    /\ senseHeap = InitialSenseHeap
    /\ env = InitialEnvironment
    /\ time = 0
    /\ events = <<>>
    /\ statistics = InitialStatistics
    /\ timeline = <<>>
    /\ timeScale \in LifetimeScales
    /\ wallClock = 0
    /\ nextId = 0
    /\ controls = 0
    /\ lastTick = NoTick
    /\ pendingSave = NoSave
    /\ sentState = NoSave

\* an updateSimulation call that the throttle lets through
runSimulation ==
    /\ wallClock < LifetimeTicks
    /\ nextId + Len(agents) \div 2 <= Len(IdPool)
    /\ \E deltaTime \in DeltaTimes, draws \in [1..Len(agents) -> Draws] :
          ApplyTick(deltaTime, draws, ThrottleMs)

SpecLifetime == LifetimeInit /\ [][runSimulation]_vars /\ WF_vars(runSimulation)

----------------------------------------------------------------------------
(* A world that has run for a long time, loaded and run at the time scale 10x:
   its agents are much younger than the world *)

\* world.time of the stored world
LateTimes == {3000, 5000}

\* two young agents ready to reproduce, at the same place, and a third agent
\* far away
LatePopulations ==
    { [agents |-> <<[ReadyAgent("a1", <<100, 0, 100>>, 900, 2) EXCEPT !.age = 110],
                    [ReadyAgent("a2", <<100, 0, 100>>, 800, 3) EXCEPT !.age = 150]>>,
       memories |-> <<5, 5>>],
      [agents |-> <<[ReadyAgent("a1", <<100, 0, 100>>, 900, 2) EXCEPT !.age = 110],
                    [ReadyAgent("a2", <<100, 0, 100>>, 800, 3) EXCEPT !.age = 150],
                    StoredAgent("a3", <<-3000, 0, -3000>>, 900, 100, 1000, 1)>>,
       memories |-> <<5, 5, 1>>] }

LateInit ==
    /\ \E layout \in ResourceLayouts, population \in LatePopulations :
          /\ resources = layout
          /\ agents = population.agents
          /\ memHeap = [r \in {a.id : a \in SeqRange(population.agents)} |->
                            StoredMemory(population.memories[
                                CHOOSE k \in 1..Len(population.agents) :
                                    population.agents[k].id = r])]
          /\ senseHeap = [r \in {a.id : a \in SeqRange(population.agents)} |->
                              EmptySensorValues]
          /\ cellGrid = updateCellGrid(placeResourcesInCells(layout, BlankCellGrid),
                                       population.agents)
          /\ statistics = calculateStatistics(population.agents)
    /\ env = InitialEnvironment
    /\ time \in LateTimes
    /\ events = <<>>
    /\ timeline = <<>>
    /\ timeScale = 10
    /\ wallClock = 0
    /\ nextId = 0
    /\ controls = 0
    /\ lastTick = [NoTick EXCEPT !.op = "loadFromDatabase"]
    /\ pendingSave = NoSave
    /\ sentState = NoSave

SpecLate == LateInit /\ [][runSimulation]_vars

----------------------------------------------------------------------------
(* calculateConsciousness called on an agent of the store's world *)

\* calls made on one agent between two ticks
MaxCalls == 2

\* a reader that orders the arrays it counts with Array.prototype.sort
ConsciousnessReadsSorting(agent, memory, sense) ==
    [agent |-> agent,
     memory |-> SortBy("memory", memory),
     sense |-> [sense EXCEPT !.proximity = SortBy("proximity", sense.proximity)]]

\* The agent object, its memory array and its sensorValues object after
\* calculateConsciousness(agent): the function reads them with .length,
\* .filter, .map and new Set, which build new arrays, and assigns nothing.
ConsciousnessReads(agent, memory, sense) ==
    [agent |-> agent, memory |-> memory, sense |-> sense]

\* one more call of calculateConsciousness on the agent it was first called on
evaluateConsciousness ==
    \E i \in 1..Len(agents) :
        /\ Len(lastTick.result) < MaxCalls
        /\ lastTick.op = "calculateConsciousness" => lastTick.acted = <<i>>
        /\ \E held \in {[agent |-> agents[i], memory |-> memHeap[agents[i].memory],
                          sense |-> senseHeap[agents[i].sensorValues]]} :
           \E value \in {calculateConsciousness(held.agent, held.memory, held.sense)} :
           \E read \in {ConsciousnessReads(held.agent, held.memory, held.sense)} :
              /\ agents' = [agents EXCEPT ![i] = read.agent]
              /\ memHeap' = [memHeap EXCEPT ![held.agent.memory] = read.memory]
              /\ senseHeap' = [senseHeap EXCEPT ![held.agent.sensorValues] = read.sense]
              /\ lastTick' =
                    IF lastTick.op = "calculateConsciousness"
                    THEN [lastTick EXCEPT !.result = Append(@, value)]
                    ELSE [NoTick EXCEPT !.op = "calculateConsciousness",
                                        !.acted = <<i>>,
                                        !.before = <<held>>,
                                        !.result = <<value>>]
        /\ UNCHANGED <<pendingSave, sentState>>
        /\ UNCHANGED <<resources, cellGrid, env, time, events, statistics, timeline,
                       timeScale, wallClock, nextId, controls>>

\* a tick of a world whose agents are not being evaluated
updateBetweenCalls ==
    /\ lastTick.op # "calculateConsciousness"
    /\ updateSimulation

SpecConsciousness == LoadedInit /\ [][updateBetweenCalls \/ evaluateConsciousness]_vars

----------------------------------------------------------------------------
(* Properties *)

Ticked == lastTick.op = "tick"

\* C1: from the initial world, after every applied tick every agent left in
\* world.agents has an energy between 0 and 100.
C1_EnergyInRange ==
    \A i \in 1..Len(agents) : agents[i].energy >= 0 /\ agents[i].energy <= 1000

\* a tick has been applied and has left agents that paid its metabolic cost
C1_Witness ==
    /\ Ticked
    /\ \E i \in 1..Len(agents) : agents[i].energy < 1000 /\ agents[i].age > 0

\* C2: after every tick no agent remaining in world.agents has energy <= 0 or
\* age >= lifespan (it would have been excluded from the survivors of that
\* tick, with a death event naming it).
C2_SurvivorsAlive ==
    Ticked =>
        \A i \in 1..Len(agents) :
            agents[i].energy > 0 /\ agents[i].age < agents[i].lifespan

\* C3: an agent whose energy is 0 or less before a tick is absent from
\* world.agents after it, the tick appends to world.events exactly one death
\* event whose affectedAgents is that agent's id, and the agent takes no action
\* and gains no memory in that tick.
C3_StarvedAgentRemoved ==
    Ticked =>
        \A k \in 1..Len(lastTick.before) :
            lastTick.before[k].energy <= 0 =>
                LET id == lastTick.before[k].id
                    appended == SubSeq(events, Len(events) - Len(lastTick.deaths) + 1,
                                       Len(events))
                IN /\ \A i \in 1..Len(agents) : agents[i].id # id
                   /\ Cardinality({j \in 1..Len(appended) :
                                      /\ appended[j].type = "death"
                                      /\ appended[j].affectedAgents = <<id>>}) = 1
                   /\ \A j \in 1..Len(lastTick.acted) : lastTick.acted[j] # id
                   /\ lastTick.after[k].memory = lastTick.before[k].memory

\* a tick has been applied to a world holding an agent without energy, next to
\* one that acted
C3_Witness ==
    /\ Ticked
    /\ \E k \in 1..Len(lastTick.before) : lastTick.before[k].energy <= 0
    /\ lastTick.acted # <<>>

\* C4: when the survivors of a tick contain exactly two ready agents, at the
\* same position, the reproduction pass yields exactly one offspring, of
\* generation max(parent generations) + 1, at the shared position; each
\* parent's energy becomes max(10, energy - 20); and both parents'
\* lastReproductionTime is the world time the tick commits (the time after
\* its advance).
C4_ReproductionPass ==
    LET ready == {k \in 1..Len(lastTick.survivors) : lastTick.survivors[k].ready}
    IN (Ticked /\ Cardinality(ready) = 2
          /\ \A k, m \in ready :
                lastTick.survivors[k].position = lastTick.survivors[m].position)
       => /\ Len(lastTick.pairs) = 1
          /\ Len(agents) = Len(lastTick.survivors) + 1
          /\ \A k \in ready :
                \E i \in 1..Len(agents) :
                    /\ agents[i].id = lastTick.survivors[k].id
                    /\ agents[i].energy = Max(100, lastTick.survivors[k].energy - 200)
                    /\ agents[i].lastReproductionTime = time
          /\ \E i \in 1..Len(agents) :
                /\ agents[i].id = lastTick.pairs[1][3]
                /\ agents[i].generation =
                      1 + MaxSeq(<<>> \o [k \in 1..Len(lastTick.survivors) |->
                                    IF k \in ready THEN lastTick.survivors[k].generation
                                    ELSE 0])
                /\ \A k \in ready : agents[i].position = lastTick.survivors[k].position

\* C5: calculateConsciousness returns a value between 0 and 100 for every
\* agent state a tick produces (so that no stored consciousnessValue is ever
\* negative).
C5_ScoreInRange ==
    \A k \in 1..Len(lastTick.scores) :
        lastTick.scores[k] >= 0 /\ lastTick.scores[k] <= 1000000

\* C6: after any sequence of ticks and reproduction passes every memory array
\* has at most 50 entries, however many memories a tick appended to it.
C6_MemoryBounded ==
    /\ \A r \in DOMAIN memHeap : Len(memHeap[r]) <= MemoryCapacity
    /\ \A k \in 1..Len(lastTick.after) : Len(lastTick.after[k].memory) <= MemoryCapacity

\* a tick in which a parent with a full memory array gained the memory of its
\* action and the memory of the reproduction
C6_Witness ==
    /\ Ticked
    /\ \E n \in 1..Len(lastTick.pairs), k \in 1..Len(lastTick.before) :
          /\ lastTick.before[k].id = lastTick.pairs[n][1]
          /\ Len(lastTick.before[k].memory) = MemoryCapacity
          /\ Len(memHeap[lastTick.before[k].id]) = MemoryCapacity
          /\ memHeap[lastTick.before[k].id] # lastTick.before[k].memory

\* C7: updateResourceLevels(resources, dt) with dt > 0 gives every food or
\* water resource with amount < 100 and regenerationRate > 0 the amount
\* min(100, amount + regenerationRate * dt), more than it had, and returns
\* every light resource as it was.
C7_Regeneration ==
    Ticked =>
        /\ Len(lastTick.regenerated) = Len(lastTick.resources)
        /\ \A i \in 1..Len(lastTick.resources) :
              LET old == lastTick.resources[i]
                  new == lastTick.regenerated[i]
              IN /\ (old.type \in {"food", "water"} /\ old.amount < 1000000
                        /\ old.regenerationRate > 0)
                     => /\ new.amount = Min(1000000, old.amount
                                               + old.regenerationRate * lastTick.deltaTime)
                        /\ new.amount > old.amount
                 /\ old.type = "light" => new = old

\* a tick regenerated a food resource up to the cap of 100
C7_Witness ==
    /\ Ticked
    /\ lastTick.deltaTime > 0
    /\ \E i \in 1..Len(lastTick.resources) :
          /\ lastTick.resources[i].type = "food"
          /\ lastTick.resources[i].amount < 1000000
          /\ lastTick.regenerated[i].amount = 1000000
    /\ \E i \in 1..Len(lastTick.resources) : lastTick.resources[i].type = "light"

\* C8: triggerCatastrophe(type, intensity) with intensity in [0, 1] sets every
\* resource's amount to amount * (1 - 0.3 * intensity), appends exactly one
\* timeline event of type 'extinction', and leaves the agents, the world time,
\* the environmental parameters and the cell grid as they were.
C8_Catastrophe ==
    [][lastTick'.op = "triggerCatastrophe" =>
          /\ Len(resources') = Len(resources)
          /\ \A i \in 1..Len(resources) :
                resources'[i] =
                    [resources[i] EXCEPT
                        !.amount = (@ * (100 - 3 * lastTick'.intensity)) \div 100]
          /\ Len(timeline') = Len(timeline) + 1
          /\ SubSeq(timeline', 1, Len(timeline)) = timeline
          /\ timeline'[Len(timeline')].type = "extinction"
          /\ UNCHANGED <<agents, memHeap, senseHeap, time, env, cellGrid>>]_vars

\* a catastrophe of intensity 1.0 has left 70% of the food resource's 60
C8_Witness ==
    /\ lastTick.op = "triggerCatastrophe"
    /\ lastTick.intensity = 10
    /\ resources[1].type = "food" /\ resources[1].amount = 420000
    /\ Len(timeline) = 1 /\ timeline[1].type = "extinction"

\* what calculateResourceDistribution returns for the grid in clear weather
ClearResult ==
    CellLevels(calculateResourceDistribution(
                   cellGrid, [env EXCEPT !.weatherCondition = "clear"]))

DroughtApplied ==
    lastTick.op = "calculateResourceDistribution" /\ env.weatherCondition = "drought"

\* C9 as stated: for any grid and any resourceAbundance and
\* resourceDistribution, calculateResourceDistribution under 'drought' returns
\* in every cell food and water levels strictly lower than under 'clear'.
C9_DroughtStrictlyLower ==
    DroughtApplied =>
        \A c \in Cells :
            /\ lastTick.result[c].food < ClearResult[c].food
            /\ lastTick.result[c].water < ClearResult[c].water

\* C9: under 'drought' no cell's food or water level is higher than under
\* 'clear' for the same grid and parameters, and it is strictly lower in every
\* cell whose level in the grid is positive when resourceAbundance and
\* resourceDistribution are positive.
C9_DroughtNeverHigher ==
    DroughtApplied =>
        \A c \in Cells :
            /\ lastTick.result[c].food <= ClearResult[c].food
            /\ lastTick.result[c].water <= ClearResult[c].water
            /\ (env.resourceAbundance > 0 /\ env.resourceDistribution > 0)
                  => /\ cellGrid[c].resources.food > 0
                           => lastTick.result[c].food < ClearResult[c].food
                     /\ cellGrid[c].resources.water > 0
                           => lastTick.result[c].water < ClearResult[c].water

\* the function has been applied under drought to a grid with food and water,
\* with positive abundance and distribution
C9_Witness ==
    /\ DroughtApplied
    /\ env.resourceAbundance > 0 /\ env.resourceDistribution > 500
    /\ \E c \in Cells : cellGrid[c].resources.food > 1000
    /\ \A c \in Cells : lastTick.result[c].food < ClearResult[c].food

\* C10: after a call of setWeatherCondition or setEnvironmentalParameter that
\* changes the weather, resourceAbundance or resourceDistribution, the levels
\* of the cell grid are the ones calculateResourceDistribution computes under
\* the new parameters, at the latest when the next tick ends.
C10_GridRecomputed ==
    [][(/\ lastTick.op \in {"setWeatherCondition", "setEnvironmentalParameter"}
        /\ lastTick.changed
        /\ lastTick'.op = "tick")
       => CellLevels(cellGrid') = CellLevels(calculateResourceDistribution(cellGrid, env))]_vars


NumericParameters == DOMAIN InitialEnvironment \ {"weatherCondition"}

\* C11: after setEnvironmentalParameter(key, v) with v outside [0, 1] the
\* stored parameter is unchanged or lies in [0, 1], and triggerCatastrophe
\* with an intensity outside [0, 1] never increases a resource's amount.
C11_SettersValidate ==
    [][/\ lastTick'.op = "setEnvironmentalParameter"
          => \A key \in NumericParameters :
                env'[key] = env[key] \/ (env'[key] >= 0 /\ env'[key] <= 1000)
       /\ lastTick'.op = "triggerCatastrophe"
          => \A i \in 1..Len(resources) : resources'[i].amount <= resources[i].amount]_vars


\* C12: a call of updateSimulation less than 100 ms after the last applied
\* update changes nothing, so every applied tick comes at least 100 ms after
\* the one before it.
C12_Throttle == Ticked => lastTick.sinceLast >= ThrottleMs

\* a second tick has been applied, 100 ms after the first
C12_Witness == Ticked /\ wallClock = 2 /\ lastTick.sinceLast = ThrottleMs


\* C13: a tick does not modify the world that was current before it: whoever
\* holds the list of agents the tick started from reads the same positions and
\* memory arrays in it after the tick (lastTick.stale) as before (lastTick.before).
C13_OldWorldUntouched == Ticked => lastTick.stale = lastTick.before


\* C14: the state saveToDatabase sends is the world as it stood at one tick
\* boundary, the one whose time it carries: its agents are as they were when
\* the store was read, also when updateSimulation ran before the request body
\* was serialized.
C14_ConsistentSnapshot ==
    sentState.state = "sent" => sentState.agents = sentState.read

C16_SpeciesCount ==
    LET Tenth(trait) == CHOOSE k \in 0..10 : 100 * k - 50 <= trait /\ trait < 100 * k + 50
        Pair(agent) == <<Tenth(agent.traits.curiosity), Tenth(agent.traits.socialAffinity)>>
    IN  /\ statistics.speciesCount = Cardinality({Pair(agents[i]) : i \in 1..Len(agents)})
        /\ Len(agents) = 0 => statistics.speciesCount = 0
        /\ Len(agents) = 2 =>
              statistics.speciesCount = IF Pair(agents[1]) = Pair(agents[2]) THEN 1 ELSE 2

\* a tick left two agents whose traits differ and round to the same pair
C16_Witness ==
    /\ Ticked
    /\ Len(agents) = 2
    /\ agents[1].traits # agents[2].traits
    /\ statistics.speciesCount = 1

\* C17: the world initializeWorld returns holds exactly two agents, 'adam' at
\* (-2, 0, 0) and 'eve' at (2, 0, 0), each with energy 100, generation 1,
\* age 0 and a consciousnessValue above 0.
C17_InitialAgents ==
    lastTick.op \in {"init", "resetSimulation"} =>
        /\ Len(agents) = 2
        /\ agents[1].id = "adam" /\ agents[1].position = <<-200, 0, 0>>
        /\ agents[2].id = "eve" /\ agents[2].position = <<200, 0, 0>>
        /\ \A i \in 1..2 :
              /\ agents[i].energy = 1000
              /\ agents[i].generation = 1
              /\ agents[i].age = 0
              /\ agents[i].consciousnessValue > 0

\* the world was initialized again after a tick had changed it
C17_Witness ==
    /\ lastTick.op = "resetSimulation"
    /\ wallClock > 0
    /\ agents[2].consciousnessValue
          = calculateConsciousness(EveLiteral, <<>>, EmptySensorValues)

C19_ResourceAmounts ==
    /\ \A i \in 1..Len(resources) :
          resources[i].amount >= 0 /\ resources[i].amount <= 1000000
    /\ Ticked =>
          \A i \in 1..Len(lastTick.resources) :
              lastTick.regenerated[i].amount >= lastTick.resources[i].amount

\* C20: after a tick, each cell's occupants is the list of the ids of exactly
\* those agents of world.agents whose position maps to the cell by
\* floor((coord + 50) / 10) on x and z, each id once, and the cell is occupied
\* iff that list is not empty; no id of an agent that died or moved to another
\* cell stays listed.
C20_Occupancy ==
    Ticked =>
        \A c \in Cells :
            LET Within(coord, k) == 1000 * k <= coord + 5000 /\ coord + 5000 < 1000 * (k + 1)
                here == SelectSeq(agents, LAMBDA a : /\ Within(a.position[1], c[1])
                                                     /\ Within(a.position[3], c[2]))
            IN  /\ cellGrid[c].occupants = <<>> \o [k \in 1..Len(here) |-> here[k].id]
                /\ cellGrid[c].occupied <=> Len(here) > 0
                /\ \A j, k \in 1..Len(cellGrid[c].occupants) :
                      cellGrid[c].occupants[j] = cellGrid[c].occupants[k] => j = k

\* a second tick in which an agent left the cell it was listed in, or died in it
C20_Witness ==
    /\ Ticked
    /\ wallClock >= 2
    /\ \E k \in 1..Len(lastTick.before) :
          LET was == lastTick.before[k]
              c == <<GridIndex(was.position[1]), GridIndex(was.position[3])>>
          IN  /\ c \in Cells
              /\ \A j \in 1..Len(cellGrid[c].occupants) : cellGrid[c].occupants[j] # was.id
    /\ \E c \in Cells : cellGrid[c].occupied

\* C21: an agent a tick has updated, whose energy after the metabolic cost is
\* below 30 and whose proximity list holds a food resource, has the velocity
\* movementSpeed times the unit direction to the nearest food resource of
\* that list, whatever else the list holds at a smaller distance.
C21_ApproachesFood ==
    Ticked =>
        \A i \in 1..Len(agents) :
            LET a == agents[i]
                proximity == senseHeap[a.sensorValues].proximity
                foods == {k \in 1..Len(proximity) :
                            /\ proximity[k].type = "resource"
                            /\ \E j \in 1..Len(resources) :
                                  /\ resources[j].id = proximity[k].id
                                  /\ resources[j].type = "food"}
            IN  (/\ \E k \in 1..Len(lastTick.acted) : lastTick.acted[k] = a.id
                 /\ a.energy < 300
                 /\ foods # {})
                => \E k \in foods :
                      /\ \A m \in foods : proximity[k].distance <= proximity[m].distance
                      /\ a.velocity =
                            <<normalizeVector(proximity[k].direction, a.movementSpeed)[1], 0,
                              normalizeVector(proximity[k].direction, a.movementSpeed)[3]>>

\* the tick just applied fed an agent: it performed 'consume', a food
\* resource lost min(amount, 10) and the agent's energy is higher than it
\* was before the tick
FedByTick ==
    /\ Ticked
    /\ \E i \in 1..Len(agents), k \in 1..Len(lastTick.before), j \in 1..Len(resources) :
          /\ agents[i].lastAction = "consume"
          /\ lastTick.before[k].id = agents[i].id
          /\ agents[i].energy > lastTick.before[k].energy
          /\ resources[j].type = "food"
          /\ resources[j].amount
                = lastTick.regenerated[j].amount - Min(lastTick.regenerated[j].amount, 100000)

\* C22: from the initial world the ticks lead to a tick in which an agent
\* performs the consume action, a food resource's amount drops by
\* min(amount, 10) and the agent's energy ends higher than it was.
C22_ConsumeReached == <>FedByTick

\* the agents a tick called addMemory on exactly once: they acted, were not
\* idle, and took no part in a reproduction
RememberedOnce ==
    {k \in 1..Len(lastTick.before) :
        /\ \E i \in 1..Len(agents) :
              agents[i].id = lastTick.before[k].id /\ agents[i].lastAction # "idle"
        /\ \A n \in 1..Len(lastTick.pairs) :
              lastTick.before[k].id \notin {lastTick.pairs[n][1], lastTick.pairs[n][2]}}

\* C23: addMemory on a log of 50 entries removes exactly one entry, one of
\* minimum intensity and, among those, of smallest timestamp, keeps every
\* other entry, and appends the new one.
C23_EvictsFaintest ==
    Ticked =>
        \A k \in RememberedOnce :
            LET old == lastTick.before[k].memory
                new == memHeap[lastTick.before[k].id]
                Count(log, n, e) == Cardinality({j \in 1..n : log[j] = e})
            IN  Len(old) = MemoryCapacity =>
                  /\ Len(new) = MemoryCapacity
                  /\ \E r \in 1..Len(old) :
                        /\ \A j \in 1..Len(old) :
                              \/ old[r].intensity < old[j].intensity
                              \/ /\ old[r].intensity = old[j].intensity
                                 /\ old[r].timestamp <= old[j].timestamp
                        /\ \A j \in 1..Len(old) :
                              Count(new, MemoryCapacity - 1, old[j])
                                = Count(old, MemoryCapacity, old[j])
                                    - (IF old[j] = old[r] THEN 1 ELSE 0)

\* a second tick added a memory to a full log in which several entries share
\* the lowest intensity
C23_Witness ==
    /\ Ticked
    /\ wallClock = 2
    /\ \E k \in RememberedOnce :
          LET old == lastTick.before[k].memory
          IN  /\ Len(old) = MemoryCapacity
              /\ memHeap[lastTick.before[k].id] # old
              /\ \E i, j \in 1..Len(old) :
                    /\ i # j
                    /\ old[i].intensity = old[j].intensity
                    /\ \A m \in 1..Len(old) : old[i].intensity <= old[m].intensity

\* C24: in the reproduction pass of a tick each agent is a parent in at most
\* one pair; each pair is two distinct survivors that are both ready
\* (threshold, cooldown, lastAction = 'reproduce') and within distance 2 of
\* each other; there is one offspring per pair; and no two ready survivors
\* within distance 2 of each other are both left without a pair.
C24_Pairing ==
    Ticked =>
        LET pairs == lastTick.pairs
            survivors == lastTick.survivors
            Parents(n) == {pairs[n][1], pairs[n][2]}
            Paired == UNION {Parents(n) : n \in 1..Len(pairs)}
            Near(a, b) == DistSq(a.position, b.position) <= 200 * 200
        IN  /\ \A n, m \in 1..Len(pairs) : n # m => Parents(n) \cap Parents(m) = {}
            /\ \A n \in 1..Len(pairs) :
                  /\ pairs[n][1] # pairs[n][2]
                  /\ \E k, m \in 1..Len(survivors) :
                        /\ k # m
                        /\ survivors[k].id = pairs[n][1] /\ survivors[m].id = pairs[n][2]
                        /\ survivors[k].ready /\ survivors[m].ready
                        /\ Near(survivors[k], survivors[m])
            /\ Len(agents) = Len(survivors) + Len(pairs)
            /\ \A n \in 1..Len(pairs) :
                  Cardinality({i \in 1..Len(agents) : agents[i].id = pairs[n][3]}) = 1
            /\ \A n, m \in 1..Len(pairs) : n # m => pairs[n][3] # pairs[m][3]
            /\ \A k, m \in 1..Len(survivors) :
                  (/\ k # m
                   /\ survivors[k].ready /\ survivors[m].ready
                   /\ Near(survivors[k], survivors[m]))
                  => survivors[k].id \in Paired \/ survivors[m].id \in Paired

\* three ready survivors at one place: one pair, one offspring, one of the
\* three without a partner
C24_Witness ==
    /\ Ticked
    /\ Len(lastTick.pairs) = 1
    /\ Cardinality({k \in 1..Len(lastTick.survivors) : lastTick.survivors[k].ready}) = 3
    /\ Len(agents) = 4

\* C25: calculateResourceDistribution never changes the grid it is given,
\* and at resourceDistribution exactly 0.5, in clear weather and with
\* resourceAbundance 1, neither the clumping nor the flattening is applied:
\* it returns every cell's food, water and light levels as they were.
C25_NeutralDistribution ==
    [][lastTick'.op = "calculateResourceDistribution" =>
          /\ cellGrid' = cellGrid
          /\ (/\ env.resourceDistribution = 500
              /\ env.resourceAbundance = 1000
              /\ env.weatherCondition = "clear")
             => lastTick'.result = CellLevels(cellGrid)]_vars

\* C26: the agents share no mutable sub-state: after a tick, an agent that
\* was idle and did not reproduce has the memory log it had before the tick,
\* whatever the other agents recorded, and no agent's proximity list (which
\* its own update resets and fills with the others) holds the agent itself.
C26_SubStateNotShared ==
    Ticked =>
        \A i \in 1..Len(agents) :
            /\ \A k \in 1..Len(lastTick.before) :
                  (/\ lastTick.before[k].id = agents[i].id
                   /\ agents[i].lastAction = "idle"
                   /\ \A n \in 1..Len(lastTick.pairs) :
                         agents[i].id \notin {lastTick.pairs[n][1], lastTick.pairs[n][2]})
                  => memHeap[agents[i].memory] = lastTick.before[k].memory
            /\ \A j \in 1..Len(senseHeap[agents[i].sensorValues].proximity) :
                  senseHeap[agents[i].sensorValues].proximity[j].id # agents[i].id

\* C27: from the initial world the ticks lead to a tick in which adam and eve,
\* both with consciousnessValue >= reproductionThreshold and lastAction
\* 'reproduce', are paired and an offspring is added, so that the world holds
\* more than two agents.
C27_ReproductionReached ==
    <>(/\ Ticked
       /\ Len(agents) > 2
       /\ \E n \in 1..Len(lastTick.pairs) :
             {lastTick.pairs[n][1], lastTick.pairs[n][2]} = {"adam", "eve"})

\* C28: when ticks with a positive scaled deltaTime keep being applied to the
\* initial world, the population becomes 0 and is 0 in every later state.
C28_Extinction == <>[](Len(agents) = 0)

\* a tick has been applied to a world that had no agents left, and it has none
C28_Witness ==
    /\ Ticked
    /\ lastTick.deltaTime > 0
    /\ lastTick.before = <<>>
    /\ Len(agents) = 0
    /\ timeScale = 10

\* C29: the cooldown runs from the agent's last reproduction.  After a tick,
\* every agent that has reproduced, and whose last reproduction lies more than
\* reproductionCooldown (plus the length of the tick it happened in) of
\* simulated time back, satisfies the cooldown condition again; and an agent
\* that a tick pairs had its previous reproduction at least reproductionCooldown
\* of simulated time before.
C29_CooldownSinceReproduction ==
    [][lastTick'.op = "tick" =>
          /\ \A i \in 1..Len(agents') :
                (/\ agents'[i].lastReproductionTime > 0
                 /\ time' - agents'[i].lastReproductionTime
                       > agents'[i].reproductionCooldown + lastTick'.deltaTime)
                => agents'[i].age
                     > agents'[i].lastReproductionTime + agents'[i].reproductionCooldown
          /\ \A n \in 1..Len(lastTick'.pairs), k \in 1..Len(agents) :
                (/\ agents[k].id \in {lastTick'.pairs[n][1], lastTick'.pairs[n][2]}
                 /\ agents[k].lastReproductionTime > 0)
                => time - agents[k].lastReproductionTime >= agents[k].reproductionCooldown]_vars

\* world.statistics describes world.agents
StatisticsCurrent ==
    LET n == Len(agents)
        Tenth(trait) == CHOOSE k \in 0..10 : 100 * k - 50 <= trait /\ trait < 100 * k + 50
        buckets == {<<Tenth(agents[i].traits.curiosity), Tenth(agents[i].traits.socialAffinity)>> :
                        i \in 1..n}
        values == {agents[i].consciousnessValue : i \in 1..n}
    IN  /\ statistics.populationSize = n
        /\ statistics.speciesCount = Cardinality(buckets)
        /\ n = 0 => statistics.averageConsciousness = 0 /\ statistics.maxConsciousness = 0
        /\ n > 0 =>
              /\ statistics.maxConsciousness \in values
              /\ \A v \in values : v <= statistics.maxConsciousness
              /\ statistics.averageConsciousness
                    = SumSeq(<<>> \o [i \in 1..n |-> agents[i].consciousnessValue]) \div n

\* C30: in every reachable state, the initial world and the world after
\* resetSimulation included, world.statistics is what the current agents
\* give (populationSize, speciesCount, averageConsciousness and
\* maxConsciousness), so that a tick appends a 'mutation' entry ("New Species
\* Evolved") only when an agent has a trait bucket no agent had before it.
C30_StatisticsCurrent ==
    [][/\ StatisticsCurrent
       /\ StatisticsCurrent'
       /\ (/\ lastTick'.op = "tick"
           /\ \E j \in Len(timeline) + 1..Len(timeline') : timeline'[j].type = "mutation")
          => \E i \in 1..Len(agents') :
                \A k \in 1..Len(agents) :
                    TraitSignature(agents'[i]) # TraitSignature(agents[k])]_vars

====
